---- MODULE Spec2Model ----
(***************************************************************************)
(* Model of the VirtualTree component (src/components/VirtualTree).        *)
(*                                                                         *)
(* React state is modelled by its latest queued value (expandedKeys,       *)
(* flattenedData, nodeHeights, scrollTop, dragState); the values that the  *)
(* callbacks of the last render closed over are the r_* variables.  A      *)
(* handler reads the r_* values and writes the queued state; Render        *)
(* commits the queued state and runs the effects of index.jsx.             *)
(***************************************************************************)
EXTENDS Integers, Sequences, FiniteSets, TLC

\* ---------------------------------------------------------------- bounds
MaxProbeRows   == 3    \* rows of a probed PositionTable
MaxOverscan    == 2    \* overscan values 0..MaxOverscan
MaxScrollSteps == 9    \* probed container offsets, in steps of 16px
MaxViewSteps   == 2    \* probed viewport heights, in steps of 32px
MaxIntents     == 2    \* recorded onDrop calls
MaxUniformRows == 22   \* rows of a probed uniform PositionTable
MaxSteps       == 4    \* handler steps of a budgeted behaviour

\* ------------------------------------------------------------- constants
ItemMinHeight   == 32  \* itemMinHeight prop default
FallbackEnd     == 20  \* rows painted while the container is not measurable

NULL      == "null"    \* JavaScript null
Undefined == -1        \* JavaScript undefined (absent height entry)

Min(a, b) == IF a < b THEN a ELSE b
Max(a, b) == IF a > b THEN a ELSE b

\* ----------------------------------------------------------------- trees
Keys == {"A", "B", "C", "D"}

Leaf(k)      == [key |-> k, children |-> <<>>]
Node(k, ch)  == [key |-> k, children |-> ch]

TreeEmpty   == <<>>
TreeNested  == << Node("A", << Leaf("B"), Node("C", << Leaf("D") >>) >>) >>
TreeForest  == << Node("A", << Leaf("B") >>), Node("C", << Leaf("D") >>) >>
TreeMoved   == << Node("A", << Node("B", << Leaf("D") >>) >>), Leaf("C") >>
TreeChain   == << Node("A", << Node("B", << Node("C", << Leaf("D") >>) >>) >>) >>
TreeFlat    == << Leaf("A"), Leaf("B"), Leaf("C"), Leaf("D") >>
TreeWide    == << Node("A", << Leaf("B"), Leaf("C"), Leaf("D") >>) >>
TreeMixed   == << Leaf("A"), Node("B", << Leaf("C") >>), Leaf("D") >>
TreePair    == << Leaf("A"), Leaf("C") >>
TreeSmall   == << Node("A", << Leaf("B") >>), Leaf("C") >>

Trees == { TreeEmpty, TreeNested, TreeForest, TreeMoved, TreeChain,
           TreeFlat, TreeWide, TreeMixed, TreePair, TreeSmall }

\* tree snapshots handed to the component as the data prop
DataTrees == { TreeEmpty, TreeForest, TreeMoved }
\* the smaller snapshots used where every row's height is tracked
LayoutTrees == { TreeEmpty, TreePair, TreeSmall }

\* --------------------------------------------------------- pure functions
\* getAllKeys (index.jsx 28-40): keys of the nodes that have children,
\* in traversal order.
\* faulty variant: collects the keys of leaves too
RECURSIVE getAllKeysWithLeaves(_)
getAllKeysWithLeaves(nodes) ==
  IF nodes = <<>> THEN <<>>
  ELSE LET node == Head(nodes)
       IN  <<node.key>> \o getAllKeysWithLeaves(node.children)
           \o getAllKeysWithLeaves(Tail(nodes))

RECURSIVE getAllKeys(_)
getAllKeys(nodes) ==
  IF nodes = <<>> THEN <<>>
  ELSE LET node == Head(nodes)
       IN  (IF Len(node.children) > 0
            THEN <<node.key>> \o getAllKeys(node.children)
            ELSE <<>>)
           \o getAllKeys(Tail(nodes))

\* new Set(array)
SetOf(seq) == { seq[i] : i \in 1..Len(seq) }

\* flattenTree (index.jsx 54-76).  Every node of the model carries a
\* (truthy) key, so `node.key || ...` is node.key.  A row keeps the
\* fields the component reads; title/icon/extra are not modelled.
\* faulty variant: descends into the children of collapsed nodes too
RECURSIVE flattenTreeIgnoreExpanded(_, _, _, _)
flattenTreeIgnoreExpanded(nodes, level, parentKey, expanded) ==
  IF nodes = <<>> THEN <<>>
  ELSE LET node == Head(nodes)
           item == [ key         |-> node.key,
                     level       |-> level,
                     parentKey   |-> parentKey,
                     hasChildren |-> Len(node.children) > 0,
                     isExpanded  |-> node.key \in expanded ]
       IN  <<item>>
           \o (IF item.hasChildren
               THEN flattenTreeIgnoreExpanded(node.children, level + 1,
                                              node.key, expanded)
               ELSE <<>>)
           \o flattenTreeIgnoreExpanded(Tail(nodes), level, parentKey, expanded)

\* faulty variant: children are given their parent's level
RECURSIVE flattenTreeSameLevel(_, _, _, _)
flattenTreeSameLevel(nodes, level, parentKey, expanded) ==
  IF nodes = <<>> THEN <<>>
  ELSE LET node == Head(nodes)
           item == [ key         |-> node.key,
                     level       |-> level,
                     parentKey   |-> parentKey,
                     hasChildren |-> Len(node.children) > 0,
                     isExpanded  |-> node.key \in expanded ]
       IN  <<item>>
           \o (IF item.hasChildren /\ item.isExpanded
               THEN flattenTreeSameLevel(node.children, level, node.key, expanded)
               ELSE <<>>)
           \o flattenTreeSameLevel(Tail(nodes), level, parentKey, expanded)

RECURSIVE flattenTree(_, _, _, _)
flattenTree(nodes, level, parentKey, expanded) ==
  IF nodes = <<>> THEN <<>>
  ELSE LET node == Head(nodes)
           item == [ key         |-> node.key,
                     level       |-> level,
                     parentKey   |-> parentKey,
                     hasChildren |-> Len(node.children) > 0,
                     isExpanded  |-> node.key \in expanded ]
       IN  <<item>>
           \o (IF item.hasChildren /\ item.isExpanded
               THEN flattenTree(node.children, level + 1, node.key, expanded)
               ELSE <<>>)
           \o flattenTree(Tail(nodes), level, parentKey, expanded)

\* positions/totalHeight useMemo (index.jsx 138-156): one forward scan;
\* `nodeHeights[key] || itemMinHeight` takes the minimum for undefined and 0.
\* faulty variant: the running offset advances by the minimum height
layoutMemoMinStep(flat, heights, itemMinHeight) ==
  LET scan[i \in 0..Len(flat)] ==
        IF i = 0 THEN [positions |-> <<>>, currentTop |-> 0]
        ELSE LET prev   == scan[i - 1]
                 node   == flat[i]
                 cached == heights[node.key]
                 height == IF cached = Undefined \/ cached = 0
                           THEN itemMinHeight ELSE cached
             IN  [ positions  |-> Append(prev.positions,
                                         [ key    |-> node.key,
                                           top    |-> prev.currentTop,
                                           height |-> height ]),
                   currentTop |-> prev.currentTop + itemMinHeight ]
  IN  [ positions   |-> scan[Len(flat)].positions,
        totalHeight |-> scan[Len(flat)].currentTop ]

layoutMemo(flat, heights, itemMinHeight) ==
  LET scan[i \in 0..Len(flat)] ==
        IF i = 0 THEN [positions |-> <<>>, currentTop |-> 0]
        ELSE LET prev   == scan[i - 1]
                 node   == flat[i]
                 cached == heights[node.key]
                 height == IF cached = Undefined \/ cached = 0
                           THEN itemMinHeight ELSE cached
             IN  [ positions  |-> Append(prev.positions,
                                         [ key    |-> node.key,
                                           top    |-> prev.currentTop,
                                           height |-> height ]),
                   currentTop |-> prev.currentTop + height ]
  IN  [ positions   |-> scan[Len(flat)].positions,
        totalHeight |-> scan[Len(flat)].currentTop ]

SetMin(S) == CHOOSE x \in S : \A y \in S : x <= y

\* visibleRange useMemo (index.jsx 159-194).  Indices are 0-based as in
\* the source; pos[i + 1] is positions[i].  hasContainer is
\* containerRef.current != null, rectTop is getBoundingClientRect().top,
\* innerHeight is window.innerHeight.
\* faulty variant: end is not clamped at the last index
visibleRangeMemoUnclamped(pos, ovs, hasContainer, rectTop, innerHeight) ==
  IF Len(pos) = 0 THEN [start |-> 0, end |-> 0]
  ELSE IF ~hasContainer
  THEN [start |-> 0, end |-> Min(FallbackEnd, Len(pos) - 1)]
  ELSE
    LET n              == Len(pos)
        viewportTop    == Max(0, 0 - rectTop)
        viewportBottom == viewportTop + innerHeight
        firstHits      == { i \in 0..(n - 1) :
                              pos[i + 1].top + pos[i + 1].height >= viewportTop }
        start          == IF firstHits = {} THEN 0
                          ELSE Max(0, SetMin(firstHits) - ovs)
        endHits        == { i \in start..(n - 1) : pos[i + 1].top > viewportBottom }
        end            == IF endHits = {} THEN n - 1
                          ELSE SetMin(endHits) + ovs
    IN  [start |-> start, end |-> end]

\* faulty variant: the start scan looks for the first row that begins at
\* or below the viewport top
visibleRangeMemoStrictStart(pos, ovs, hasContainer, rectTop, innerHeight) ==
  IF Len(pos) = 0 THEN [start |-> 0, end |-> 0]
  ELSE IF ~hasContainer
  THEN [start |-> 0, end |-> Min(FallbackEnd, Len(pos) - 1)]
  ELSE
    LET n              == Len(pos)
        viewportTop    == Max(0, 0 - rectTop)
        viewportBottom == viewportTop + innerHeight
        firstHits      == { i \in 0..(n - 1) : pos[i + 1].top >= viewportTop }
        start          == IF firstHits = {} THEN 0
                          ELSE Max(0, SetMin(firstHits) - ovs)
        endHits        == { i \in start..(n - 1) : pos[i + 1].top > viewportBottom }
        end            == IF endHits = {} THEN n - 1
                          ELSE Min(n - 1, SetMin(endHits) + ovs)
    IN  [start |-> start, end |-> end]

visibleRangeMemo(pos, ovs, hasContainer, rectTop, innerHeight) ==
  IF Len(pos) = 0 THEN [start |-> 0, end |-> 0]
  ELSE IF ~hasContainer
  THEN [start |-> 0, end |-> Min(FallbackEnd, Len(pos) - 1)]
  ELSE
    LET n              == Len(pos)
        viewportTop    == Max(0, 0 - rectTop)
        viewportBottom == viewportTop + innerHeight
        firstHits      == { i \in 0..(n - 1) :
                              pos[i + 1].top + pos[i + 1].height >= viewportTop }
        start          == IF firstHits = {} THEN 0
                          ELSE Max(0, SetMin(firstHits) - ovs)
        endHits        == { i \in start..(n - 1) : pos[i + 1].top > viewportBottom }
        end            == IF endHits = {} THEN n - 1
                          ELSE Min(n - 1, SetMin(endHits) + ovs)
    IN  [start |-> start, end |-> end]

\* ------------------------------------------------------------------ state
VARIABLES
  data, draggable, overscan,            \* props of the last render
  expandedKeys, flattenedData,          \* useState: latest queued value
  nodeHeights, scrollTop, dragState,
  heightCache,                          \* heightCacheRef.current
  r_expandedKeys, r_flattenedData,      \* values the callbacks of the last
  r_dragState,                          \*   render closed over
  positions, totalHeight, visibleRange, \* useMemo results of the last render
  pending,                              \* state hooks with a queued update
  rectTop, innerHeight,                 \* DOM: container top, window height
  intents, lastExpand,                  \* onDrop calls, last onNodeExpand call
  lastEvent,                            \* the handler that ran last
  probe,                                \* inputs/outputs of a probed function
  callbacks,                            \* per key: measuring callbacks of the
                                        \*   mounted row that have not run yet
  treeData,                             \* App: latest queued treeData state
  steps                                 \* handler steps taken, or NoBudget

vars == << data, draggable, overscan, expandedKeys, flattenedData,
           nodeHeights, scrollTop, dragState, heightCache,
           r_expandedKeys, r_flattenedData, r_dragState,
           positions, totalHeight, visibleRange, pending,
           rectTop, innerHeight, intents, lastExpand, lastEvent,
           probe, callbacks, treeData, steps >>

propVars   == << data, draggable, overscan >>
expandVars == << expandedKeys, lastExpand >>
heightVars == << nodeHeights, heightCache >>
dragVars   == << dragState, intents >>
renderVars == << r_expandedKeys, r_flattenedData, r_dragState,
                 positions, totalHeight, visibleRange >>
domVars    == << rectTop, innerHeight >>

\* heights a row reports (offsetHeight / contentRect.height)
HeightValues == {0, 48}
\* container offsets and window heights of the page
DomTops      == {32, 0, -48, -208}
DomHeights   == {64}
DropPositions == {"before", "after", "inside"}

\* dragState initial value (index.jsx 20-25) and every reset
IdleDrag == [ dragging     |-> FALSE,
              dragNode     |-> NULL,
              dropPosition |-> NULL,
              dropNode     |-> NULL ]

NoProbe == [kind |-> "none"]

\* the two reports a mounted TreeNode makes: the measuring effect
\* (TreeNode.jsx 23-28) and the first ResizeObserver entry (31-46)
MeasureCallbacks == {"effect", "observer"}

\* steps value of a behaviour of unbounded length
NoBudget == -1

\* every handler step of a budgeted behaviour is counted, up to MaxSteps
Tick ==
  IF steps = NoBudget THEN UNCHANGED steps
  ELSE /\ steps < MaxSteps
       /\ steps' = steps + 1

Event(op, key) == [op |-> op, key |-> key]

\* State after the first render and its effects (index.jsx 14-25, 79-107):
\* the first render saw flattenedData = [], the flatten effect and the
\* initial handleScroll() have queued their updates.
Mount(budget) ==
  /\ data \in DataTrees
  /\ draggable = TRUE
  /\ overscan \in 0..MaxOverscan
  /\ expandedKeys = {}
  /\ r_expandedKeys = {}
  /\ flattenedData = flattenTree(data, 0, NULL, {})
  /\ r_flattenedData = <<>>
  /\ nodeHeights = [k \in Keys |-> Undefined]
  /\ heightCache = [k \in Keys |-> Undefined]
  /\ rectTop \in DomTops
  /\ innerHeight \in DomHeights
  /\ scrollTop = Max(0, 0 - rectTop)
  /\ dragState = IdleDrag
  /\ r_dragState = IdleDrag
  /\ positions = <<>>
  /\ totalHeight = 0
  /\ visibleRange = [start |-> 0, end |-> 0]
  /\ pending = {"flattened"} \cup (IF scrollTop # 0 THEN {"scroll"} ELSE {})
  /\ intents = <<>>
  /\ lastExpand = [key |-> NULL, expanded |-> FALSE]
  /\ lastEvent = Event("mount", NULL)
  /\ probe = NoProbe
  /\ callbacks = [k \in Keys |-> {}]
  /\ treeData = data
  /\ steps = budget

Init == Mount(NoBudget)

\* visibleNodes useMemo (index.jsx 197-211): flattenedData.slice(start, end + 1)
visibleNodes ==
  SubSeq(r_flattenedData, visibleRange.start + 1,
         Min(visibleRange.end + 1, Len(r_flattenedData)))

\* the rows that are mounted as TreeNode elements (index.jsx 305-323)
MountedRows == { visibleNodes[i] : i \in 1..Len(visibleNodes) }

\* keys of the rows flat.slice(start, end + 1)
MountedKeysOf(flat, range) ==
  { flat[i].key : i \in (range.start + 1)..Min(range.end + 1, Len(flat)) }

RowOfKey(flat, key) == CHOOSE row \in SetOf(flat) : row.key = key

\* height of the content of a row (title, extra), per key
ContentHeight(key) ==
  CASE key = "A" -> 64
    [] key = "C" -> 48
    [] OTHER     -> 0

\* The height of a rendered row: its content, at least the minHeight of
\* its style (TreeNode.jsx 157).  offsetHeight and contentRect.height are
\* both this height.
RenderedHeight(node) ==
  Max(IF node.isExpanded THEN 50 ELSE 32, ContentHeight(node.key))

\* The measuring callbacks outstanding after a commit that replaces the
\* rows oldFlat[oldRange] by newFlat[newRange]: a row that is mounted owes
\* both reports, a row that is unmounted owes none (its observer is
\* disconnected), and a row that stays mounted with a new size gets a new
\* ResizeObserver entry.
callbacksAfter(oldFlat, oldRange, newFlat, newRange) ==
  [ k \in Keys |->
      IF k \notin MountedKeysOf(newFlat, newRange) THEN {}
      ELSE IF k \notin MountedKeysOf(oldFlat, oldRange) THEN MeasureCallbacks
      ELSE IF RenderedHeight(RowOfKey(newFlat, k))
                # RenderedHeight(RowOfKey(oldFlat, k))
           THEN callbacks[k] \cup {"observer"}
           ELSE callbacks[k] ]

\* ----------------------------------------------------------------- render
\* faulty variant: the keys that are no branch of the new tree are dropped
\* from ExpansionState
RenderWithPrune(d, dr, op) ==
  LET lay       == layoutMemo(flattenedData, nodeHeights, ItemMinHeight)
      rangeDeps == pending \cap {"flattened", "heights", "scroll"} # {}
      flatDeps  == d # data \/ "expanded" \in pending
  IN  /\ data' = d
      /\ draggable' = dr
      /\ r_expandedKeys' = expandedKeys
      /\ r_flattenedData' = flattenedData
      /\ r_dragState' = dragState
      /\ positions' = lay.positions
      /\ totalHeight' = lay.totalHeight
      /\ visibleRange' = IF rangeDeps
                         THEN visibleRangeMemo(positions', overscan, TRUE,
                                               rectTop, innerHeight)
                         ELSE visibleRange
      /\ callbacks' = callbacksAfter(r_flattenedData, visibleRange,
                                     r_flattenedData', visibleRange')
      /\ IF flatDeps
         THEN /\ flattenedData' = flattenTree(d, 0, NULL, expandedKeys)
              /\ pending' = {"flattened"}
         ELSE /\ UNCHANGED flattenedData
              /\ pending' = {}
      /\ Tick
      /\ lastEvent' = Event(op, NULL)
      /\ expandedKeys' = expandedKeys \cap SetOf(getAllKeys(d))
      /\ UNCHANGED << overscan, lastExpand, heightVars, scrollTop, dragVars,
                      domVars, probe >>

\* One render of VirtualTree with props d (data) and dr (draggable),
\* followed by its commit: the queued state becomes the rendered state,
\* the memos are recomputed when a dependency changed, and the flatten
\* effect (index.jsx 79-82) runs when data or flattenTree changed.
RenderWith(d, dr, op) ==
  LET lay       == layoutMemo(flattenedData, nodeHeights, ItemMinHeight)
      rangeDeps == pending \cap {"flattened", "heights", "scroll"} # {}
      flatDeps  == d # data \/ "expanded" \in pending
  IN  /\ data' = d
      /\ draggable' = dr
      /\ r_expandedKeys' = expandedKeys
      /\ r_flattenedData' = flattenedData
      /\ r_dragState' = dragState
      /\ positions' = lay.positions
      /\ totalHeight' = lay.totalHeight
      /\ visibleRange' = IF rangeDeps
                         THEN visibleRangeMemo(positions', overscan, TRUE,
                                               rectTop, innerHeight)
                         ELSE visibleRange
      /\ callbacks' = callbacksAfter(r_flattenedData, visibleRange,
                                     r_flattenedData', visibleRange')
      /\ IF flatDeps
         THEN /\ flattenedData' = flattenTree(d, 0, NULL, expandedKeys)
              /\ pending' = {"flattened"}
         ELSE /\ UNCHANGED flattenedData
              /\ pending' = {}
      /\ Tick
      /\ lastEvent' = Event(op, NULL)
      /\ UNCHANGED << overscan, expandVars, heightVars, scrollTop, dragVars,
                      domVars, probe >>

\* React re-renders the component after a state update was queued.
Render ==
  /\ pending # {}
  /\ RenderWith(data, draggable, "render")
  /\ UNCHANGED treeData

\* The caller passes a new tree snapshot.
SetData(t) ==
  /\ t # data
  /\ RenderWith(t, draggable, "setData")
  /\ treeData' = t

\* The caller flips the draggable prop.
SetDraggable ==
  /\ RenderWith(treeData, ~draggable, "setDraggable")
  /\ UNCHANGED treeData

\* ------------------------------------------------------ expansion control
\* toggleExpand (index.jsx 110-124): the updater runs on the queued state,
\* the flag handed to onNodeExpand is read from the closure.
toggleExpand(key) ==
  /\ expandedKeys' = IF key \in expandedKeys
                     THEN expandedKeys \ {key}
                     ELSE expandedKeys \cup {key}
  /\ lastExpand' = [key |-> key, expanded |-> ~(key \in r_expandedKeys)]
  /\ pending' = pending \cup {"expanded"}

\* TreeNode.handleExpandClick (TreeNode.jsx 55-60), reachable only through
\* the expand icon, which is rendered for rows with children (125-138).
ExpandClick(node) ==
  /\ node.hasChildren
  /\ toggleExpand(node.key)
  /\ Tick
  /\ lastEvent' = Event("expandClick", node.key)
  /\ UNCHANGED << propVars, flattenedData, heightVars, scrollTop, dragVars,
                  renderVars, domVars, probe, callbacks, treeData >>

\* expandAll of the imperative handle (index.jsx 43-47)
ExpandAll ==
  /\ expandedKeys' = SetOf(getAllKeys(data))
  /\ pending' = pending \cup {"expanded"}
  /\ Tick
  /\ lastEvent' = Event("expandAll", NULL)
  /\ UNCHANGED << propVars, lastExpand, flattenedData, heightVars, scrollTop,
                  dragVars, renderVars, domVars, probe, callbacks, treeData >>

\* faulty variant: only the branch keys of the current tree are removed
CollapseAllLiveOnly ==
  /\ expandedKeys' = expandedKeys \ SetOf(getAllKeys(data))
  /\ pending' = pending \cup {"expanded"}
  /\ Tick
  /\ lastEvent' = Event("collapseAll", NULL)
  /\ UNCHANGED << propVars, lastExpand, flattenedData, heightVars, scrollTop,
                  dragVars, renderVars, domVars, probe, callbacks, treeData >>

\* collapseAll of the imperative handle (index.jsx 48-50)
CollapseAll ==
  /\ expandedKeys' = {}
  /\ pending' = pending \cup {"expanded"}
  /\ Tick
  /\ lastEvent' = Event("collapseAll", NULL)
  /\ UNCHANGED << propVars, lastExpand, flattenedData, heightVars, scrollTop,
                  dragVars, renderVars, domVars, probe, callbacks, treeData >>

\* --------------------------------------------------------- height feedback
\* faulty variant: no comparison with the cached height
updateNodeHeightNoGuard(key, height) ==
  /\ heightCache' = [heightCache EXCEPT ![key] = height]
  /\ nodeHeights' = [nodeHeights EXCEPT ![key] = height]
  /\ pending' = pending \cup {"heights"}

\* updateNodeHeight (index.jsx 127-135)
updateNodeHeight(key, height) ==
  IF heightCache[key] # height
  THEN /\ heightCache' = [heightCache EXCEPT ![key] = height]
       /\ nodeHeights' = [nodeHeights EXCEPT ![key] = height]
       /\ pending' = pending \cup {"heights"}
  ELSE UNCHANGED << heightCache, nodeHeights, pending >>

\* A mounted row reports its height: the measuring effect or the
\* ResizeObserver callback of TreeNode (TreeNode.jsx 23-46).
ReportHeight(node, height) ==
  /\ updateNodeHeight(node.key, height)
  /\ Tick
  /\ lastEvent' = Event("report", node.key)
  /\ UNCHANGED << propVars, expandVars, flattenedData, scrollTop, dragVars,
                  renderVars, domVars, probe, callbacks, treeData >>

\* One outstanding measuring callback of a mounted row runs and reports
\* the row's height (TreeNode.jsx 23-46).
Measure(node, cb) ==
  /\ cb \in callbacks[node.key]
  /\ updateNodeHeight(node.key, RenderedHeight(node))
  /\ callbacks' = [callbacks EXCEPT ![node.key] = @ \ {cb}]
  /\ Tick
  /\ lastEvent' = Event("measure", node.key)
  /\ UNCHANGED << propVars, expandVars, flattenedData, scrollTop, dragVars,
                  renderVars, domVars, probe, treeData >>

\* ------------------------------------------------------------------ scroll
\* The page scrolls to a new container offset and handleScroll runs
\* (index.jsx 85-107).  Setting an equal scrollTop queues no render.
Scroll(top) ==
  /\ top # rectTop
  /\ rectTop' = top
  /\ scrollTop' = Max(0, 0 - top)
  /\ pending' = IF scrollTop' # scrollTop THEN pending \cup {"scroll"}
                ELSE pending
  /\ Tick
  /\ lastEvent' = Event("scroll", NULL)
  /\ UNCHANGED << propVars, expandVars, flattenedData, heightVars, dragVars,
                  renderVars, innerHeight, probe, callbacks, treeData >>

\* ------------------------------------------------------------ drag and drop
\* handleDragStart (index.jsx 214-224)
handleDragStart(node) ==
  IF ~draggable THEN UNCHANGED << dragState, intents, pending >>
  ELSE /\ dragState' = [ dragging     |-> TRUE,
                         dragNode     |-> node.key,
                         dropPosition |-> NULL,
                         dropNode     |-> NULL ]
       /\ pending' = pending \cup {"drag"}
       /\ UNCHANGED intents

\* handleDragOver (index.jsx 227-238)
handleDragOver(node, position) ==
  IF ~draggable \/ ~r_dragState.dragging
  THEN UNCHANGED << dragState, intents, pending >>
  ELSE /\ dragState' = [dragState EXCEPT !.dropPosition = position,
                                         !.dropNode = node.key]
       /\ pending' = pending \cup {"drag"}
       /\ UNCHANGED intents

\* handleDragLeave (index.jsx 241-249)
handleDragLeave ==
  IF ~draggable THEN UNCHANGED << dragState, intents, pending >>
  ELSE /\ dragState' = [dragState EXCEPT !.dropPosition = NULL,
                                         !.dropNode = NULL]
       /\ pending' = pending \cup {"drag"}
       /\ UNCHANGED intents

\* faulty variant: no comparison of the dragged and the target key
handleDropNoSelfCheck(dropNode, position) ==
  IF ~draggable \/ r_dragState.dragNode = NULL
  THEN UNCHANGED << dragState, intents, pending >>
  ELSE /\ intents' = Append(intents, [ dragNode |-> r_dragState.dragNode,
                                       dropNode |-> dropNode.key,
                                       position |-> position ])
       /\ dragState' = IdleDrag
       /\ pending' = pending \cup {"drag"}

\* faulty variant: the session is not reset after the intent was emitted
handleDropKeepSession(dropNode, position) ==
  IF ~draggable \/ r_dragState.dragNode = NULL
  THEN UNCHANGED << dragState, intents, pending >>
  ELSE IF r_dragState.dragNode = dropNode.key
  THEN /\ dragState' = IdleDrag
       /\ pending' = pending \cup {"drag"}
       /\ UNCHANGED intents
  ELSE /\ intents' = Append(intents, [ dragNode |-> r_dragState.dragNode,
                                       dropNode |-> dropNode.key,
                                       position |-> position ])
       /\ UNCHANGED << dragState, pending >>

\* handleDrop (index.jsx 252-284)
handleDrop(dropNode, position) ==
  IF ~draggable \/ r_dragState.dragNode = NULL
  THEN UNCHANGED << dragState, intents, pending >>
  ELSE IF r_dragState.dragNode = dropNode.key
  THEN /\ dragState' = IdleDrag
       /\ pending' = pending \cup {"drag"}
       /\ UNCHANGED intents
  ELSE /\ intents' = Append(intents, [ dragNode |-> r_dragState.dragNode,
                                       dropNode |-> dropNode.key,
                                       position |-> position ])
       /\ dragState' = IdleDrag
       /\ pending' = pending \cup {"drag"}

\* faulty variant: only the drop target is cleared
handleDragEndKeepNode ==
  /\ dragState' = [dragState EXCEPT !.dropPosition = NULL, !.dropNode = NULL]
  /\ pending' = pending \cup {"drag"}
  /\ UNCHANGED intents

\* handleDragEnd (index.jsx 287-294)
handleDragEnd ==
  /\ dragState' = IdleDrag
  /\ pending' = pending \cup {"drag"}
  /\ UNCHANGED intents

\* TreeNode.handleDragOver classification (TreeNode.jsx 74-85);
\* offsetY < height * 0.25 is 4 * offsetY < height
\* faulty variant: the row is split in thirds
classifyDropThirds(offsetY, height) ==
  IF 3 * offsetY < height THEN "before"
  ELSE IF 3 * offsetY > 2 * height THEN "after"
  ELSE "inside"

classifyDrop(offsetY, height) ==
  IF 4 * offsetY < height THEN "before"
  ELSE IF 4 * offsetY > 3 * height THEN "after"
  ELSE "inside"

\* the dropPosition prop of a mounted row (index.jsx 321)
dropPositionProp(node) ==
  IF r_dragState.dropNode = node.key THEN r_dragState.dropPosition ELSE NULL

dragFrame == << propVars, expandVars, flattenedData, heightVars, scrollTop,
                renderVars, domVars, probe, callbacks, treeData >>

\* TreeNode.handleDragStart (TreeNode.jsx 62-66)
DragStart(node) ==
  /\ IF draggable THEN handleDragStart(node)
     ELSE UNCHANGED << dragState, intents, pending >>
  /\ Tick
  /\ lastEvent' = Event("dragStart", node.key)
  /\ UNCHANGED dragFrame

\* TreeNode.handleDragOver (TreeNode.jsx 68-88)
DragOver(node, offsetY, height) ==
  /\ IF ~draggable THEN UNCHANGED << dragState, intents, pending >>
     ELSE handleDragOver(node, classifyDrop(offsetY, height))
  /\ Tick
  /\ lastEvent' = Event("dragOver", node.key)
  /\ UNCHANGED dragFrame

\* TreeNode.handleDragLeave (TreeNode.jsx 90-95)
DragLeave(node) ==
  /\ IF draggable THEN handleDragLeave
     ELSE UNCHANGED << dragState, intents, pending >>
  /\ Tick
  /\ lastEvent' = Event("dragLeave", node.key)
  /\ UNCHANGED dragFrame

\* TreeNode.handleDrop (TreeNode.jsx 97-102)
Drop(node) ==
  /\ Len(intents) < MaxIntents
  /\ IF draggable /\ dropPositionProp(node) # NULL
     THEN handleDrop(node, dropPositionProp(node))
     ELSE UNCHANGED << dragState, intents, pending >>
  /\ Tick
  /\ lastEvent' = Event("drop", node.key)
  /\ UNCHANGED dragFrame

\* faulty variant: dragEnd is forwarded whatever the draggable prop is
DragEndUnguarded(node) ==
  /\ handleDragEnd
  /\ Tick
  /\ lastEvent' = Event("dragEnd", node.key)
  /\ UNCHANGED dragFrame

\* TreeNode.handleDragEnd (TreeNode.jsx 104-109)
DragEnd(node) ==
  /\ IF draggable THEN handleDragEnd
     ELSE UNCHANGED << dragState, intents, pending >>
  /\ Tick
  /\ lastEvent' = Event("dragEnd", node.key)
  /\ UNCHANGED dragFrame

\* pointer offsets within a hovered row of the given height
PointerOffsets(height) == {0, height \div 8, height \div 4, height \div 2,
                           (3 * height) \div 4, (7 * height) \div 8, height}
RowHeights == {32}

\* ------------------------------------------------- the demo page (App.jsx)
\* removeNode of App.handleDrop (App.jsx 50-63): the first node with the
\* key, depth first, is cut out; removed holds it, or is empty.
\* faulty variant: the node is found and left in place
RECURSIVE removeNodeKeep(_, _)
removeNodeKeep(nodes, targetKey) ==
  IF nodes = <<>> THEN [removed |-> <<>>, nodes |-> <<>>]
  ELSE LET node == Head(nodes)
       IN  IF node.key = targetKey
           THEN [removed |-> <<node>>, nodes |-> nodes]
           ELSE LET sub == removeNodeKeep(node.children, targetKey)
                IN  IF sub.removed # <<>>
                    THEN [removed |-> sub.removed, nodes |-> nodes]
                    ELSE LET rest == removeNodeKeep(Tail(nodes), targetKey)
                         IN  [removed |-> rest.removed, nodes |-> nodes]

RECURSIVE removeNode(_, _)
removeNode(nodes, targetKey) ==
  IF nodes = <<>> THEN [removed |-> <<>>, nodes |-> <<>>]
  ELSE LET node == Head(nodes)
       IN  IF node.key = targetKey
           THEN [removed |-> <<node>>, nodes |-> Tail(nodes)]
           ELSE LET sub == removeNode(node.children, targetKey)
                IN  IF sub.removed # <<>>
                    THEN [ removed |-> sub.removed,
                           nodes   |-> << [node EXCEPT !.children = sub.nodes] >>
                                       \o Tail(nodes) ]
                    ELSE LET rest == removeNode(Tail(nodes), targetKey)
                         IN  [ removed |-> rest.removed,
                               nodes   |-> <<node>> \o rest.nodes ]

\* insertNode of App.handleDrop (App.jsx 66-89)
RECURSIVE insertNode(_, _, _, _)
insertNode(nodes, targetKey, nodeToInsert, position) ==
  IF nodes = <<>> THEN [inserted |-> FALSE, nodes |-> <<>>]
  ELSE LET node == Head(nodes)
       IN  IF node.key = targetKey /\ position = "before"
           THEN [inserted |-> TRUE, nodes |-> <<nodeToInsert>> \o nodes]
           ELSE IF node.key = targetKey /\ position = "after"
           THEN [ inserted |-> TRUE,
                  nodes    |-> <<node, nodeToInsert>> \o Tail(nodes) ]
           ELSE IF node.key = targetKey /\ position = "inside"
           THEN [ inserted |-> TRUE,
                  nodes    |-> << [node EXCEPT !.children =
                                     Append(node.children, nodeToInsert)] >>
                               \o Tail(nodes) ]
           ELSE LET sub == insertNode(node.children, targetKey,
                                      nodeToInsert, position)
                IN  IF sub.inserted
                    THEN [ inserted |-> TRUE,
                           nodes    |-> << [node EXCEPT !.children = sub.nodes] >>
                                        \o Tail(nodes) ]
                    ELSE LET rest == insertNode(Tail(nodes), targetKey,
                                                nodeToInsert, position)
                         IN  [ inserted |-> rest.inserted,
                               nodes    |-> <<node>> \o rest.nodes ]

\* checkNode of isDescendant (App.jsx 93-101)
RECURSIVE checkNode(_, _)
checkNode(nodes, targetKey) ==
  IF nodes = <<>> THEN FALSE
  ELSE \/ Head(nodes).key = targetKey
       \/ checkNode(Head(nodes).children, targetKey)
       \/ checkNode(Tail(nodes), targetKey)

\* findNode of isDescendant (App.jsx 103-112): the node, or empty
RECURSIVE findNode(_, _)
findNode(nodes, key) ==
  IF nodes = <<>> THEN <<>>
  ELSE IF Head(nodes).key = key THEN << Head(nodes) >>
  ELSE LET found == findNode(Head(nodes).children, key)
       IN  IF found # <<>> THEN found ELSE findNode(Tail(nodes), key)

\* isDescendant (App.jsx 92-117) on the copied tree
isDescendant(newTreeData, parentKey, childKey) ==
  LET parentNode == findNode(newTreeData, parentKey)
  IN  IF parentNode = <<>> THEN FALSE
      ELSE checkNode(parentNode[1].children, childKey)

\* App.handleDrop (App.jsx 45-153) on the treeData of the render it was
\* created in: set tells whether setTreeData is called, tree is its argument.
AppHandleDrop(tree, dragKey, dropKey, position) ==
  IF dragKey = dropKey THEN [set |-> FALSE, tree |-> tree]
  ELSE IF isDescendant(tree, dragKey, dropKey)
  THEN [set |-> FALSE, tree |-> tree]
  ELSE LET rem == removeNode(tree, dragKey)
       IN  IF rem.removed = <<>> THEN [set |-> FALSE, tree |-> tree]
           ELSE LET ins == insertNode(rem.nodes, dropKey, rem.removed[1],
                                      position)
                IN  IF ~ins.inserted THEN [set |-> FALSE, tree |-> tree]
                    ELSE [set |-> TRUE, tree |-> ins.nodes]

\* The page handles one drop intent; data is the treeData its handleDrop
\* closed over.
AppDrop(dragKey, dropKey, position) ==
  /\ LET res == AppHandleDrop(data, dragKey, dropKey, position)
     IN  treeData' = IF res.set THEN res.tree ELSE treeData
  /\ Tick
  /\ lastEvent' = Event("appDrop", dragKey)
  /\ UNCHANGED << propVars, expandVars, flattenedData, heightVars, scrollTop,
                  dragVars, renderVars, pending, domVars, probe, callbacks >>

\* The page re-renders after setTreeData and passes the new tree down.
AppRender ==
  /\ treeData # data
  /\ RenderWith(treeData, draggable, "appRender")
  /\ UNCHANGED treeData

\* ------------------------------------------------------ specifications
SetDataAny      == \E t \in DataTrees : SetData(t)
SetDataLayout   == \E t \in LayoutTrees : SetData(t)
ExpandClickAny  == \E node \in MountedRows : ExpandClick(node)
ReportHeightAny == \E node \in MountedRows, h \in HeightValues :
                      ReportHeight(node, h)
ScrollAny       == \E top \in DomTops : Scroll(top)
MeasureAny      == \E node \in MountedRows, cb \in MeasureCallbacks :
                      Measure(node, cb)
DragStartAny    == \E node \in MountedRows : DragStart(node)
DragOverAny     == \E node \in MountedRows, h \in RowHeights :
                      \E y \in PointerOffsets(h) : DragOver(node, y, h)
DragLeaveAny    == \E node \in MountedRows : DragLeave(node)
DropAny         == \E node \in MountedRows : Drop(node)
DragEndAny      == \E node \in MountedRows : DragEnd(node)

Next ==
  \/ Render
  \/ SetDataAny
  \/ SetDraggable
  \/ ExpandClickAny
  \/ ExpandAll
  \/ CollapseAll
  \/ ReportHeightAny
  \/ MeasureAny
  \/ ScrollAny
  \/ DragStartAny
  \/ DragOverAny
  \/ DragLeaveAny
  \/ DropAny
  \/ DragEndAny

Spec == Init /\ [][Next]_vars

\* Every operation, in behaviours of at most MaxSteps handler steps.
InitFrame ==
  /\ Mount(0)
  /\ data = TreeForest
  /\ overscan = MaxOverscan
  /\ rectTop = 0

SpecFrame == InitFrame /\ [][Next]_vars

\* Measurement feedback: the tree is loaded once, then only renders and
\* the measuring callbacks of the mounted rows run.
MeasureTrees == { TreeFlat, TreeMixed }

LoadData ==
  /\ data = TreeEmpty
  /\ \E t \in MeasureTrees : SetData(t)

NextMeasure ==
  \/ Render
  \/ LoadData
  \/ MeasureAny

InitMeasure ==
  /\ Init
  /\ data = TreeEmpty
  /\ rectTop \in {0, -48}

SpecMeasure ==
  /\ InitMeasure
  /\ [][NextMeasure]_vars
  /\ WF_vars(Render)
  /\ WF_vars(MeasureAny)

\* Expansion control and flattening alone.
NextExpand ==
  \/ Render
  \/ SetDataAny
  \/ ExpandClickAny
  \/ ExpandAll
  \/ CollapseAll

InitExpand ==
  /\ Init
  /\ rectTop = 0

SpecExpand == InitExpand /\ [][NextExpand]_vars

\* The drag session alone, on the rows of a tree once rendered.
NextDrag ==
  \/ Render
  \/ SetDraggable
  \/ DragStartAny
  \/ DragOverAny
  \/ DragLeaveAny
  \/ DropAny
  \/ DragEndAny

InitDrag ==
  /\ Init
  /\ data = TreeForest
  /\ overscan = MaxOverscan
  /\ rectTop = 0

SpecDrag == InitDrag /\ [][NextDrag]_vars

\* Layout: tree replacement, expansion and height reports.
NextLayout ==
  \/ Render
  \/ SetDataLayout
  \/ ExpandAll
  \/ CollapseAll
  \/ ReportHeightAny

InitLayout ==
  /\ Init
  /\ data = TreeEmpty
  /\ overscan = MaxOverscan
  /\ rectTop = 0

SpecLayout == InitLayout /\ [][NextLayout]_vars

\* The demo page: the tree is loaded once, then drop intents are handled
\* and the page and the tree component re-render.
AppTrees == { TreePair, TreeSmall }

LoadTree ==
  /\ data = TreeEmpty
  /\ treeData = TreeEmpty
  /\ \E t \in AppTrees : SetData(t)

AppDropAny ==
  \E dragKey \in Keys, dropKey \in Keys, position \in DropPositions :
     AppDrop(dragKey, dropKey, position)

NextApp ==
  \/ Render
  \/ LoadTree
  \/ AppDropAny
  \/ AppRender

InitApp ==
  /\ Init
  /\ data = TreeEmpty
  /\ overscan = MaxOverscan
  /\ rectTop = 0

SpecApp == InitApp /\ [][NextApp]_vars

\* ------------------------------------------------ probes of pure functions
\* A probe applies one pure function of the component to inputs drawn from
\* bounded sets and records inputs and result; each run probes once.
InitProbe ==
  /\ Init
  /\ data = TreeEmpty
  /\ overscan = 0
  /\ rectTop = 0

ProbeFlatten ==
  /\ probe = NoProbe
  /\ \E t \in Trees, e \in SUBSET Keys :
        probe' = [ kind     |-> "flatten",
                   tree     |-> t,
                   expanded |-> e,
                   rows     |-> flattenTree(t, 0, NULL, e) ]
  /\ UNCHANGED << propVars, expandVars, flattenedData, heightVars, scrollTop,
                  dragVars, renderVars, pending, domVars, lastEvent,
                  callbacks, treeData, steps >>

\* PositionTables: every layout of up to MaxProbeRows rows whose height is
\* unmeasured or 48, and uniform tables of up to MaxUniformRows rows.
ProbeRowsOf(n) == [i \in 1..n |-> [key |-> i]]
ProbeTables ==
  { layoutMemo(ProbeRowsOf(Len(hs)), hs, ItemMinHeight).positions :
      hs \in UNION { [1..n -> {Undefined, 48}] : n \in 0..MaxProbeRows } }
  \cup
  { layoutMemo(ProbeRowsOf(n), [i \in 1..n |-> Undefined],
               ItemMinHeight).positions : n \in 0..MaxUniformRows }
ProbeTops    == { 16 - 16 * i : i \in 0..MaxScrollSteps }
ProbeHeights == { 32 * i : i \in 0..MaxViewSteps }

ProbeRange ==
  /\ probe = NoProbe
  /\ \E pos \in ProbeTables, ovs \in 0..MaxOverscan, c \in BOOLEAN,
        top1 \in ProbeTops, top2 \in ProbeTops, vh \in ProbeHeights :
        probe' = [ kind         |-> "range",
                   pos          |-> pos,
                   ovs          |-> ovs,
                   hasContainer |-> c,
                   top1         |-> top1,
                   top2         |-> top2,
                   innerHeight  |-> vh,
                   range1       |-> visibleRangeMemo(pos, ovs, c, top1, vh),
                   range2       |-> visibleRangeMemo(pos, ovs, c, top2, vh) ]
  /\ UNCHANGED << propVars, expandVars, flattenedData, heightVars, scrollTop,
                  dragVars, renderVars, pending, domVars, lastEvent,
                  callbacks, treeData, steps >>

NextProbe ==
  \/ ProbeFlatten
  \/ ProbeRange

SpecProbe == InitProbe /\ [][NextProbe]_vars

\* ------------------------------------------------------------------ claims
\* Reference description of a tree, independent of flattenTree: every node
\* with its path of child indices from the roots, its key, its parent's
\* key and whether it has children.
RECURSIVE AllNodes(_, _, _)
AllNodes(nodes, prefix, parentKey) ==
  UNION { {[ path      |-> Append(prefix, i),
             key       |-> nodes[i].key,
             parentKey |-> parentKey,
             branch    |-> Len(nodes[i].children) > 0 ]}
          \cup AllNodes(nodes[i].children, Append(prefix, i), nodes[i].key)
          : i \in 1..Len(nodes) }

IsProperPrefix(p, q) == Len(p) < Len(q) /\ SubSeq(q, 1, Len(p)) = p

\* p comes before q in depth-first pre-order
PreOrderBefore(p, q) ==
  \/ IsProperPrefix(p, q)
  \/ \E i \in 1..Min(Len(p), Len(q)) :
        /\ SubSeq(p, 1, i - 1) = SubSeq(q, 1, i - 1)
        /\ p[i] < q[i]

\* the nodes all of whose proper ancestors are expanded
ShownNodes(tree, expanded) ==
  LET all == AllNodes(tree, <<>>, NULL)
  IN  { n \in all : \A a \in all : IsProperPrefix(a.path, n.path)
                                      => a.key \in expanded }

NodeOfKey(tree, k) == CHOOSE n \in AllNodes(tree, <<>>, NULL) : n.key = k

\* C1: flattenTree returns exactly the nodes whose ancestors are all
\* expanded, each once, in depth-first pre-order, with level equal to the
\* nesting depth and parentKey equal to the parent's key.
C1_FlattenCorrect ==
  probe.kind = "flatten" =>
    LET shown == ShownNodes(probe.tree, probe.expanded)
        rows  == probe.rows
    IN  /\ Len(rows) = Cardinality(shown)
        /\ \A n \in shown : \E i \in 1..Len(rows) : rows[i].key = n.key
        /\ \A i \in 1..Len(rows) :
              \E n \in shown :
                 /\ n.key = rows[i].key
                 /\ rows[i].level = Len(n.path) - 1
                 /\ rows[i].parentKey = n.parentKey
                 /\ rows[i].hasChildren = n.branch
                 /\ rows[i].isExpanded = (n.key \in probe.expanded)
        /\ \A i, j \in 1..Len(rows) :
              i < j => PreOrderBefore(NodeOfKey(probe.tree, rows[i].key).path,
                                      NodeOfKey(probe.tree, rows[j].key).path)

\* a flatten that shows one subtree and hides another
C1_Witness ==
  /\ probe.kind = "flatten"
  /\ probe.tree = TreeNested
  /\ probe.expanded = {"A"}
  /\ Len(probe.rows) = 3
  /\ probe.rows[3].key = "C"
  /\ probe.rows[3].level = 1

\* C3: the visible range satisfies 0 <= start <= end <= count - 1 for a
\* non-empty PositionTable and start = end = 0 for an empty one; without a
\* measurable container it is start 0, end min(20, count - 1).
C3_RangeOf(r) ==
  LET count == Len(probe.pos)
  IN  /\ count = 0 => r.start = 0 /\ r.end = 0
      /\ count > 0 => 0 <= r.start /\ r.start <= r.end /\ r.end <= count - 1
      /\ (count > 0 /\ ~probe.hasContainer)
            => r.start = 0 /\ r.end = Min(20, count - 1)

C3_RangeBounds ==
  probe.kind = "range" => C3_RangeOf(probe.range1) /\ C3_RangeOf(probe.range2)

\* a range cut at both ends by the viewport
C3_Witness ==
  /\ probe.kind = "range"
  /\ probe.hasContainer
  /\ probe.ovs = 1
  /\ probe.range1.start > 0
  /\ probe.range1.end < Len(probe.pos) - 1

\* C4: for viewportTop1 <= viewportTop2 on the same PositionTable, overscan
\* and viewport height, start for viewportTop2 is not below start for
\* viewportTop1.
C4_StartMonotone ==
  (/\ probe.kind = "range"
   /\ probe.hasContainer
   /\ Max(0, 0 - probe.top1) <= Max(0, 0 - probe.top2))
     => probe.range1.start <= probe.range2.start

\* C2: the PositionTable of every render starts at top 0, each top is the
\* previous top plus the previous height, and totalHeight is the bottom of
\* the last row (0 for an empty table).
C2_LayoutConsistent ==
  LET n == Len(positions)
  IN  /\ n = 0 => totalHeight = 0
      /\ n > 0 => /\ positions[1].top = 0
                  /\ \A i \in 1..(n - 1) :
                        positions[i + 1].top = positions[i].top + positions[i].height
                  /\ totalHeight = positions[n].top + positions[n].height

\* a table of three rows after a tree replacement, an expansion and a
\* height report that differs from the minimum
C2_Witness ==
  /\ Len(positions) = 3
  /\ positions[1].height = 48
  /\ positions[2].height = ItemMinHeight
  /\ positions[3].top = 80
  /\ totalHeight = 112

\* C5: a height report equal to the cached height changes neither the
\* HeightCache nor nodeHeights and queues no render; any report leaves the
\* cache at the reported height, so of two equal reports in a row only the
\* first can change state, and it does so when the height is new.
C5_IdempotentHeight ==
  [][ \A node \in MountedRows, h \in HeightValues :
        ReportHeight(node, h) =>
          /\ heightCache'[node.key] = h
          /\ heightCache[node.key] = h =>
                UNCHANGED << heightCache, nodeHeights, pending, positions,
                             totalHeight >>
          /\ heightCache[node.key] # h =>
                /\ nodeHeights' = [nodeHeights EXCEPT ![node.key] = h]
                /\ "heights" \in pending' ]_vars

\* a report of the cached height has just run and queued nothing
C5_Witness ==
  /\ lastEvent.op = "report"
  /\ heightCache[lastEvent.key] = 48
  /\ nodeHeights[lastEvent.key] = 48
  /\ pending = {}

\* the keys of the nodes of a tree that have at least one child
BranchKeys(tree) == { n.key : n \in { m \in AllNodes(tree, <<>>, NULL) : m.branch } }

C9_ToggleNotifies ==
  [][ \A node \in MountedRows :
        ExpandClick(node) =>
          /\ (node.key \in expandedKeys') # (node.key \in expandedKeys)
          /\ lastExpand' = [ key      |-> node.key,
                             expanded |-> node.key \in expandedKeys' ] ]_vars

\* the drop reaches the engine: the row forwards it (TreeNode.jsx 99)
DropDelivered(node) == draggable /\ dropPositionProp(node) # NULL

\* C7: a drop delivered on the node the session drags emits no intent and
\* resets the session to Idle, for every drop position.
C7_SelfDropNoop ==
  [][ \A node \in MountedRows :
        (Drop(node) /\ DropDelivered(node)
                    /\ r_dragState.dragNode = node.key)
          => /\ intents' = intents
             /\ dragState' = IdleDrag ]_vars

\* a drop on the dragged row itself has just run
C7_Witness ==
  /\ lastEvent.op = "drop"
  /\ draggable
  /\ r_dragState.dragNode = lastEvent.key
  /\ r_dragState.dropNode = lastEvent.key
  /\ r_dragState.dropPosition = "inside"
  /\ dragState = IdleDrag
  /\ intents = <<>>

C10_DragEndResets ==
  [][ \A node \in MountedRows :
        (DragEnd(node) /\ draggable)
          => /\ dragState' = IdleDrag
             /\ intents' = intents ]_vars

\* dragEnd has just reset a session that had a drag node and a drop target
C10_Witness ==
  /\ lastEvent.op = "dragEnd"
  /\ r_dragState.dragging
  /\ r_dragState.dragNode # NULL
  /\ r_dragState.dropNode # NULL
  /\ dragState = IdleDrag

\* C11: while the draggable prop is false, dragStart, dragOver, dragLeave,
\* drop and dragEnd leave the DragSession unchanged and emit no intent,
\* whatever the session state is.
C11_DisabledNoop ==
  [][ ~draggable =>
        \A node \in MountedRows :
           /\ DragStart(node) => UNCHANGED << dragState, intents >>
           /\ (\E h \in RowHeights : \E y \in PointerOffsets(h) :
                  DragOver(node, y, h)) => UNCHANGED << dragState, intents >>
           /\ DragLeave(node) => UNCHANGED << dragState, intents >>
           /\ Drop(node) => UNCHANGED << dragState, intents >>
           /\ DragEnd(node) => UNCHANGED << dragState, intents >> ]_vars

\* a session started before the flag was turned off has received its
\* dragEnd and is still Dragging
C11_Witness ==
  /\ ~draggable
  /\ lastEvent.op = "dragEnd"
  /\ dragState.dragging
  /\ dragState.dragNode = "A"
  /\ dragState.dropNode = "C"

\* the rows of the probed table that intersect the viewport
C12_Intersecting ==
  LET vt == Max(0, 0 - probe.top1)
      vb == vt + probe.innerHeight
  IN  { i \in 1..Len(probe.pos) :
          /\ probe.pos[i].top + probe.pos[i].height >= vt
          /\ probe.pos[i].top <= vb }

\* C12: the rendered rows are the rows start..end, and there are at most
\* (rows intersecting the viewport) + 2 * overscan + 1 of them, for every
\* row count and scroll position.
C12_WindowBound ==
  (probe.kind = "range" /\ probe.hasContainer /\ Len(probe.pos) > 0)
    => (probe.range1.end - probe.range1.start + 1)
          <= Cardinality(C12_Intersecting) + 2 * probe.ovs + 1

\* the rows of the probed flatten as <<key, level>> pairs
C13_Rows == [i \in 1..Len(probe.rows) |-> <<probe.rows[i].key, probe.rows[i].level>>]

\* C13 as stated: the tree A[B[], C[D[]]] with ExpansionState {C}
\* flattens to A (depth 0), C (depth 0), D (depth 1).
C13_NestedScenario ==
  (probe.kind = "flatten" /\ probe.tree = TreeNested /\ probe.expanded = {"C"})
    => C13_Rows = << <<"A", 0>>, <<"C", 0>>, <<"D", 1>> >>

\* C13 amended: the forest of the two roots A[B[]] and C[D[]] with
\* ExpansionState {C} flattens to A (depth 0), C (depth 0), D (depth 1);
\* B is excluded because A is not expanded.
C13_ForestScenario ==
  (probe.kind = "flatten" /\ probe.tree = TreeForest /\ probe.expanded = {"C"})
    => /\ C13_Rows = << <<"A", 0>>, <<"C", 0>>, <<"D", 1>> >>
       /\ probe.rows[3].parentKey = "C"
       /\ \A i \in 1..Len(probe.rows) : probe.rows[i].key # "B"

\* the forest scenario has been flattened
C13_Witness ==
  /\ probe.kind = "flatten"
  /\ probe.tree = TreeForest
  /\ probe.expanded = {"C"}
  /\ Len(probe.rows) = 3

\* C14: collapseAll leaves ExpansionState empty, whatever it held.
C14_CollapseAllPost ==
  [][ CollapseAll => expandedKeys' = {} ]_vars

\* collapseAll has emptied a set that held C, a key without children in
\* the current tree
C14_Witness ==
  /\ lastEvent.op = "collapseAll"
  /\ data = TreeMoved
  /\ "C" \in r_expandedKeys
  /\ expandedKeys = {}

\* C15: dragging holds exactly when a dragNode is recorded, and dropNode
\* and dropPosition are set only while Dragging.
C15_SessionWellFormed ==
  /\ dragState.dragging <=> dragState.dragNode # NULL
  /\ (dragState.dropNode # NULL \/ dragState.dropPosition # NULL)
        => dragState.dragging /\ dragState.dragNode # NULL

\* C16: a toggle of a key that has no children in the current tree changes
\* neither ExpansionState nor the last onNodeExpand notification.
C16_LeafToggleNoop ==
  [][ \A node \in MountedRows :
        (ExpandClick(node) /\ node.key \notin BranchKeys(data))
          => UNCHANGED << expandedKeys, lastExpand >> ]_vars

\* C18: once the reported heights are rendered, every row of the
\* PositionTable has the last height reported for its key, and the minimum
\* height only when none was reported.
C18_HeightSelection ==
  "heights" \notin pending =>
    \A i \in 1..Len(positions) :
       positions[i].height =
         IF heightCache[positions[i].key] = Undefined
         THEN ItemMinHeight
         ELSE heightCache[positions[i].key]

\* the quarter of the row the pointer is in: top, bottom or the middle half
C19_Region(y, h) ==
  IF y * 4 < h THEN "before"
  ELSE IF (h - y) * 4 < h THEN "after"
  ELSE "inside"

\* C19: a dragOver at offset y of a row of height h, seen by a Dragging
\* session, records the hovered node and the quarter y lies in: before for
\* the top quarter, after for the bottom quarter, inside for the middle.
C19_DropClassification ==
  [][ (draggable /\ r_dragState.dragging /\ lastEvent'.op = "dragOver") =>
        \A node \in MountedRows, h \in RowHeights :
           \A y \in PointerOffsets(h) :
              DragOver(node, y, h)
                => /\ dragState'.dropNode = node.key
                   /\ dragState'.dropPosition = C19_Region(y, h)
                   /\ dragState'.dropPosition \in DropPositions
                   /\ dragState'.dragNode = dragState.dragNode ]_vars

\* the pointer is in the bottom quarter of C while A is dragged
C19_Witness ==
  /\ lastEvent = Event("dragOver", "C")
  /\ r_dragState.dragging
  /\ dragState.dragNode = "A"
  /\ dragState.dropNode = "C"
  /\ dragState.dropPosition = "after"

\* no render is queued and no mounted row owes a report
C17_Quiescent ==
  /\ pending = {}
  /\ \A k \in Keys : callbacks[k] = {}

C20_ExpansionFrame ==
  [][ /\ expandedKeys' # expandedKeys
           => /\ ExpandClickAny \/ ExpandAll \/ CollapseAll
              /\ ~(\/ Render \/ SetDataAny \/ SetDraggable \/ ReportHeightAny
                   \/ MeasureAny \/ ScrollAny \/ DragStartAny \/ DragOverAny
                   \/ DragLeaveAny \/ DropAny \/ DragEndAny)
      /\ heightCache' # heightCache => ~SetDataAny ]_vars

\* the tree was replaced while A was expanded and measured; A is no
\* longer in the tree and is still expanded and cached
C20_Witness ==
  /\ lastEvent.op = "setData"
  /\ data = TreeEmpty
  /\ "A" \in expandedKeys
  /\ heightCache["A"] # Undefined

\* C21: when the PositionTable is non-empty and the container is
\* measurable, every row that intersects the viewport has its index within
\* start..end, for every overscan and scroll position.
C21_ViewportCovered ==
  (probe.kind = "range" /\ probe.hasContainer /\ Len(probe.pos) > 0)
    => LET vt == Max(0, 0 - probe.top2)
           vb == vt + probe.innerHeight
       IN  \A i \in 0..(Len(probe.pos) - 1) :
              (/\ probe.pos[i + 1].top + probe.pos[i + 1].height >= vt
               /\ probe.pos[i + 1].top <= vb)
                => (probe.range2.start <= i /\ i <= probe.range2.end)

\* without overscan, the viewport begins inside a row that is not the
\* first and ends before the last row: the window is a proper part of the
\* table and starts at the partly visible row
C21_Witness ==
  /\ probe.kind = "range"
  /\ probe.hasContainer
  /\ probe.ovs = 0
  /\ probe.innerHeight > 0
  /\ probe.range2.start > 0
  /\ probe.range2.end < Len(probe.pos) - 1
  /\ probe.pos[probe.range2.start + 1].top < Max(0, 0 - probe.top2)

\* the keys of a tree
C22_KeySet(tree) == { n.key : n \in AllNodes(tree, <<>>, NULL) }

\* every key of the tree is the key of one node only
C22_EachOnce(tree) ==
  Cardinality(AllNodes(tree, <<>>, NULL)) = Cardinality(C22_KeySet(tree))

\* dropKey is dragKey or the key of a node below a node with key dragKey
C22_SelfOrBelow(tree, dragKey, dropKey) ==
  \/ dragKey = dropKey
  \/ \E m, n \in AllNodes(tree, <<>>, NULL) :
        /\ m.key = dragKey
        /\ n.key = dropKey
        /\ IsProperPrefix(m.path, n.path)

\* C22: after any sequence of drop intents handled by the page's
\* handleDrop the tree holds the same keys as before, each once; an intent
\* whose dropNode is the dragNode or below it leaves the tree unchanged.
C22_MovePreservesKeys ==
  [][ /\ C22_EachOnce(treeData')
      /\ C22_KeySet(treeData') = C22_KeySet(data')
      /\ lastEvent'.op = "appDrop"
            => C22_KeySet(treeData') = C22_KeySet(treeData)
      /\ \A dragKey \in Keys, dropKey \in Keys :
            (/\ lastEvent' = Event("appDrop", dragKey)
             /\ C22_SelfOrBelow(data, dragKey, dropKey))
              => \A position \in DropPositions :
                    AppDrop(dragKey, dropKey, position)
                      => treeData' = treeData ]_vars

\* two moves have turned A[B], C into the chain C[B[A]], and the tree has
\* been rendered
C22_Witness ==
  /\ lastEvent.op = "appRender"
  /\ data = << Node("C", << Node("B", << Leaf("A") >>) >>) >>
  /\ treeData = data

====
